---- MODULE Spec2Model ----
(***************************************************************************)
(* Library Management Dashboard (src/p2.py).                               *)
(*                                                                         *)
(* One run of main() over an uploaded CSV: the loader (read_csv and the    *)
(* date coercion), the search step, get_book_summary, get_flagged_books,   *)
(* get_overdue_books, get_underrepresented_genres and convert_df_to_excel, *)
(* followed by the next rerun of the script.  The wall clock advances      *)
(* between runs.                                                           *)
(*                                                                         *)
(* Values.  A cell of a DataFrame is <<>> (NaN / NaT) or <<v>>.  Text      *)
(* (Title, Authors, the query) is a sequence of one-character strings;     *)
(* Status, Condition and Category are atomic strings; a timestamp is a     *)
(* number of half days since 2024-01-15 00:00.  A DataFrame is a record    *)
(* [columns, rows]; only the recognised columns are kept, any other column *)
(* of the file is passed through and never read.  A fallible expression    *)
(* yields [exc, val]: exc = "None" and the value, or the exception's name. *)
(***************************************************************************)
EXTENDS Integers, Sequences, FiniteSets, TLC

\* ---------------------------------------------------------------- bounds
MaxRows == 2
MaxGenreRows == 5
MaxQueryLen == 2
MaxNow == 65

\* ------------------------------------------------------------- constants
\* Half days in a day: the model's clock resolution.
UnitsPerDay == 2
\* Line 79 / 83: "> 30".
OverdueDays == 30
\* Line 89: threshold=5.
DefaultThreshold == 5

Cols == {"Title", "Authors", "Status", "Condition", "Category", "Issue_Date", "Return_Date"}

NA == <<>>

Ok(v) == [exc |-> "None", val |-> v]
Raise(kind) == [exc |-> kind, val |-> <<>>]

\* pd.DataFrame()
EmptyFrame == [columns |-> {}, rows |-> <<>>]

\* df.empty.  A frame read from a CSV with rows has at least one column.
empty(d) == Len(d.rows) = 0

\* df[mask]: the rows whose mask entry is TRUE, in order, same columns.
RECURSIVE SelectRows(_, _, _)
SelectRows(rows, mask, i) ==
    IF i > Len(rows) THEN <<>>
    ELSE (IF mask[i] THEN <<rows[i]>> ELSE <<>>) \o SelectRows(rows, mask, i + 1)

BoolIndex(d, mask) == [columns |-> d.columns, rows |-> SelectRows(d.rows, mask, 1)]

\* df[c]: the column as a sequence of cells; KeyError when the column is absent.
Column(d, c) ==
    IF c \in d.columns
    THEN Ok([i \in 1..Len(d.rows) |-> d.rows[i][c]])
    ELSE Raise("KeyError")

\* ---------------------------------------------------------------- loader
\* read_csv's default na_values, as far as the model's alphabet spells them.
NaTexts == {<<>>, <<"n", "a", "n">>, <<"N", "A">>, <<"N", "a", "N">>}
NaStrings == {"", "NA", "NaN", "nan", "null", "NULL", "None", "N/A", "n/a", "<NA>"}

TextCols == {"Title", "Authors"}
DateCols == {"Issue_Date", "Return_Date"}

read_csv_cell(c, raw) ==
    IF c \in TextCols
    THEN (IF raw \in NaTexts THEN NA ELSE <<raw>>)
    ELSE (IF raw \in NaStrings THEN NA ELSE <<raw>>)

\* The date texts the model's files hold, and the instant each denotes.
DateValue == ("2024-01-15" :> 0) @@ ("2024-01-16 12:00" :> 3) @@ ("2024-03-01" :> 92)

\* pd.to_datetime(cell, errors='coerce')
to_datetime(cell) ==
    IF cell = NA THEN NA
    ELSE IF cell[1] \in DOMAIN DateValue THEN <<DateValue[cell[1]]>>
    ELSE NA

load_cell(c, raw) ==
    IF c \in DateCols THEN to_datetime(read_csv_cell(c, raw)) ELSE read_csv_cell(c, raw)

\* Lines 123-129: read_csv, then the date columns that exist are coerced.
load(file) ==
    [columns |-> file.header,
     rows |-> [i \in 1..Len(file.rows) |->
                 [c \in file.header |-> load_cell(c, file.rows[i][c])]]]

\* ---------------------------------------------------------------- search
\* str.lower() on the model's alphabet.
Lower(ch) ==
    CASE ch = "A" -> "a"
      [] ch = "B" -> "b"
      [] ch = "N" -> "n"
      [] OTHER -> ch

str_lower(s) == [i \in 1..Len(s) |-> Lower(s[i])]

\* What .astype(str) makes of a missing value: the text 'nan' on an object or
\* float column, or still missing on a string-dtype column (pandas >= 3).
NaStringForms == {<<<<"n", "a", "n">>>>, NA}

\* Series.astype(str), cell by cell.
astype_str(cell, na_form) == IF cell = NA THEN na_form ELSE cell

\* re.compile(pat) fails: "(" opens a group that nothing closes (the alphabet
\* has no ")").
re_error(pat) == \E i \in 1..Len(pat) : pat[i] = "("

\* re.search(pat, s) for a pattern of literals and "." (any character).
re_search(pat, s) ==
    \E k \in 0..(Len(s) - Len(pat)) :
        \A j \in 1..Len(pat) : pat[j] = "." \/ pat[j] = s[k + j]

\* Series.str.contains(pat, na=False): regex=True is the default.
str_contains(col, pat) ==
    IF re_error(pat) THEN Raise("re.error")
    ELSE Ok([i \in 1..Len(col) |-> IF col[i] = NA THEN FALSE ELSE re_search(pat, col[i][1])])

\* Line 137.
search_columns(d) == {c \in TextCols : c \in d.columns}

\* Lines 143-144: the mask over the chosen field, and the rows it keeps.
text_search(d, field, query, na_form) ==
    LET col == Column(d, field) IN
    IF col.exc # "None" THEN col
    ELSE LET txt == [i \in 1..Len(col.val) |->
                        LET c == astype_str(col.val[i], na_form) IN
                        IF c = NA THEN NA ELSE <<str_lower(c[1])>>]
             mask == str_contains(txt, query)
         IN IF mask.exc # "None" THEN mask ELSE Ok(BoolIndex(d, mask.val))

\* The search without the test of line 142: the empty pattern is searched for.
search_filter_unguarded(d, field, query, na_form) == text_search(d, field, query, na_form)

\* Lines 142-147, given the selected field and the lowercased query.
search_filter(d, field, query, na_form) ==
    IF query # <<>> THEN text_search(d, field, query, na_form) ELSE Ok(d)

\* --------------------------------------------------------------- summary
\* str.title() on the Status and Condition texts of the model.
str_title(s) ==
    CASE s = "issued" -> "Issued"
      [] s = "lost" -> "Lost"
      [] OTHER -> s

\* The count with the column's case normalised before the comparison.
CountEqTitled(d, c, lit) ==
    LET col == Column(d, c) IN
    IF col.exc # "None" THEN col
    ELSE Ok(Cardinality({i \in 1..Len(col.val) :
                            col.val[i] # NA /\ str_title(col.val[i][1]) = lit}))

\* df[df[c] == lit].shape[0]
CountEq(d, c, lit) ==
    LET col == Column(d, c) IN
    IF col.exc # "None" THEN col
    ELSE Ok(Cardinality({i \in 1..Len(col.val) : col.val[i] = <<lit>>}))

ZeroSummary ==
    [Total |-> 0, Available |-> 0, Issued |-> 0, Returned |-> 0,
     Damaged |-> 0, Lost |-> 0, ToBeReplaced |-> 0]

\* Lines 47-52: one guarded count.
GuardedCount(d, c, lit) == IF c \in d.columns THEN CountEq(d, c, lit) ELSE Ok(0)

get_book_summary(d) ==
    IF empty(d) THEN Ok(ZeroSummary)
    ELSE LET a == GuardedCount(d, "Status", "Available")
             i == GuardedCount(d, "Status", "Issued")
             r == GuardedCount(d, "Status", "Returned")
             g == GuardedCount(d, "Condition", "Damaged")
             l == GuardedCount(d, "Condition", "Lost")
             t == GuardedCount(d, "Condition", "To Be Replaced")
             bad == \E x \in {a.exc, i.exc, r.exc, g.exc, l.exc, t.exc} : x # "None"
         IN IF bad THEN Raise("KeyError")
            ELSE Ok([Total |-> Len(d.rows), Available |-> a.val, Issued |-> i.val,
                     Returned |-> r.val, Damaged |-> g.val, Lost |-> l.val,
                     ToBeReplaced |-> t.val])

\* --------------------------------------------------------------- flagged
\* The list without its last entry.
flagged_conditions_short == {"Damaged", "Lost"}

\* Line 61.
flagged_conditions == {"Damaged", "Lost", "To Be Replaced"}

\* Series.isin(values)
isin(col, values) == [i \in 1..Len(col) |-> col[i] # NA /\ col[i][1] \in values]

get_flagged_books(d) ==
    IF empty(d) \/ "Condition" \notin d.columns THEN Ok(EmptyFrame)
    ELSE LET col == Column(d, "Condition") IN
         IF col.exc # "None" THEN col
         ELSE Ok(BoolIndex(d, isin(col.val, flagged_conditions)))

\* --------------------------------------------------------------- overdue
\* The comparison as ">= 30".
DaysGe(today, cell, n) ==
    cell # NA /\ ((today - cell[1]) \div UnitsPerDay) >= n

\* The subtraction the other way round: (Issue_Date - today).dt.days > 30.
DaysGtReversed(today, cell, n) ==
    cell # NA /\ ((cell[1] - today) \div UnitsPerDay) > n

\* (today - Issue_Date).dt.days > 30: NaT stays NaT, .dt.days floors, and a
\* comparison with NaN is False.
DaysGt(today, cell, n) ==
    cell # NA /\ ((today - cell[1]) \div UnitsPerDay) > n

get_overdue_books(d, today) ==
    IF empty(d) \/ "Status" \notin d.columns \/ "Issue_Date" \notin d.columns
    THEN Ok(EmptyFrame)
    ELSE LET st == Column(d, "Status") IN
         IF st.exc # "None" THEN st
         ELSE LET issued_books == BoolIndex(d, [i \in 1..Len(st.val) |-> st.val[i] = <<"Issued">>])
                  iss == Column(issued_books, "Issue_Date")
              IN IF empty(issued_books) THEN Ok(EmptyFrame)
                 ELSE IF "Return_Date" \in d.columns
                 THEN LET ret == Column(issued_books, "Return_Date") IN
                      IF ret.exc # "None" THEN ret
                      ELSE IF iss.exc # "None" THEN iss
                      ELSE Ok(BoolIndex(issued_books,
                               [i \in 1..Len(iss.val) |->
                                   ret.val[i] = NA /\ DaysGt(today, iss.val[i], OverdueDays)]))
                 ELSE IF iss.exc # "None" THEN iss
                      ELSE Ok(BoolIndex(issued_books,
                               [i \in 1..Len(iss.val) |-> DaysGt(today, iss.val[i], OverdueDays)]))

\* ---------------------------------------------------------------- genres
\* Series.value_counts(): the count of each distinct non-null value.
value_counts(col) ==
    LET vals == {col[i][1] : i \in {j \in 1..Len(col) : col[j] # NA}} IN
    [v \in vals |-> Cardinality({i \in 1..Len(col) : col[i] = <<v>>})]

\* pd.Series(dtype='int64')
EmptySeries == [v \in {} |-> 0]

\* The filter as "<= threshold".
get_underrepresented_genres_le(d, threshold) ==
    IF empty(d) \/ "Category" \notin d.columns THEN Ok(EmptySeries)
    ELSE LET col == Column(d, "Category") IN
         IF col.exc # "None" THEN col
         ELSE LET genre_counts == value_counts(col.val) IN
              Ok([v \in {g \in DOMAIN genre_counts : genre_counts[g] <= threshold} |->
                     genre_counts[v]])

\* Lines 89-95.
get_underrepresented_genres(d, threshold) ==
    IF empty(d) \/ "Category" \notin d.columns THEN Ok(EmptySeries)
    ELSE LET col == Column(d, "Category") IN
         IF col.exc # "None" THEN col
         ELSE LET genre_counts == value_counts(col.val) IN
              Ok([v \in {g \in DOMAIN genre_counts : genre_counts[g] < threshold} |->
                     genre_counts[v]])

\* ---------------------------------------------------------------- export
\* Lines 98-107: one sheet, a header row and one row per record; None when
\* the writer fails.
convert_df_to_excel(d, writer_ok) ==
    IF writer_ok
    THEN [sheet_name |-> "Library_Books", header |-> d.columns, data |-> d.rows]
    ELSE [sheet_name |-> "None", header |-> {}, data |-> <<>>]

\* ----------------------------------------------------------------- state
VARIABLES
    uploaded_file,    \* the CSV held by the upload widget: [header, rows]
    now,              \* the wall clock
    threshold,        \* the threshold get_underrepresented_genres is called with
    pc,               \* the statement of main() that runs next
    df,               \* line 123
    search_field,     \* line 139
    search_query,     \* line 140
    filtered_df,      \* lines 144-149
    stats,            \* line 152
    flagged_books,    \* line 168
    today,            \* the clock when get_overdue_books was last called (line 70)
    overdue_books,    \* line 174
    underrep_genres,  \* line 180
    excel_data,       \* line 199
    error             \* the exception main() caught (line 208), or "None"

vars == <<uploaded_file, now, threshold, pc, df, search_field, search_query,
          filtered_df, stats, flagged_books, today, overdue_books,
          underrep_genres, excel_data, error>>

session == <<uploaded_file, threshold>>

NoExcel == [sheet_name |-> "None", header |-> {}, data |-> <<>>]

\* The locals of main() before the script has assigned them.
LocalsUnset ==
    /\ df = EmptyFrame
    /\ search_field = "None"
    /\ search_query = <<>>
    /\ filtered_df = EmptyFrame
    /\ stats = ZeroSummary
    /\ flagged_books = EmptyFrame
    /\ today = 0
    /\ overdue_books = EmptyFrame
    /\ underrep_genres = EmptySeries
    /\ excel_data = NoExcel
    /\ error = "None"

\* The text the user can type into the search box.
QueryChars == {"A", ".", "("}
Queries == UNION {[1..n -> QueryChars] : n \in 0..MaxQueryLen}

\* A file: a header and up to n rows drawn from Pool, each cut to the header.
Files(Pool, Headers, n) ==
    {[header |-> h, rows |-> [i \in 1..Len(rs) |-> [c \in h |-> rs[i][c]]]] :
        h \in Headers, rs \in UNION {[1..k -> Pool] : k \in 0..n}}

\* The state when the script first runs after an upload.
InitWith(Pool, Headers, n, Thresholds, Nows) ==
    /\ uploaded_file \in Files(Pool, Headers, n)
    /\ now \in Nows
    /\ threshold \in Thresholds
    /\ pc = "load"
    /\ LocalsUnset

\* Line 208: the except clause of main().
Fail(kind) ==
    /\ error' = kind
    /\ pc' = "done"

\* Lines 123-131.
Load ==
    /\ pc = "load"
    /\ df' = load(uploaded_file)
    /\ pc' = "search"
    /\ UNCHANGED <<session, now, search_field, search_query, filtered_df, stats,
                   flagged_books, today, overdue_books, underrep_genres,
                   excel_data, error>>

\* The search step narrowing df itself (df = df[mask]).
SearchInPlace ==
    /\ pc = "search"
    /\ IF search_columns(df) # {}
       THEN \E field \in search_columns(df), typed \in Queries, na_form \in NaStringForms :
              LET query == str_lower(typed)
                  res == search_filter(df, field, query, na_form)
              IN /\ search_field' = field
                 /\ search_query' = query
                 /\ IF res.exc # "None"
                    THEN Fail(res.exc) /\ UNCHANGED <<df, filtered_df>>
                    ELSE /\ df' = res.val
                         /\ filtered_df' = res.val
                         /\ pc' = "summary"
                         /\ UNCHANGED error
       ELSE /\ filtered_df' = df
            /\ pc' = "summary"
            /\ UNCHANGED <<df, search_field, search_query, error>>
    /\ UNCHANGED <<session, now, stats, flagged_books, today, overdue_books,
                   underrep_genres, excel_data>>

\* Lines 137-149.  The selected field, the typed text and the pandas build's
\* treatment of a missing value under astype(str) are the step's inputs.
Search ==
    /\ pc = "search"
    /\ IF search_columns(df) # {}
       THEN \E field \in search_columns(df), typed \in Queries, na_form \in NaStringForms :
              LET query == str_lower(typed)
                  res == search_filter(df, field, query, na_form)
              IN /\ search_field' = field
                 /\ search_query' = query
                 /\ IF res.exc # "None"
                    THEN Fail(res.exc) /\ UNCHANGED filtered_df
                    ELSE /\ filtered_df' = res.val
                         /\ pc' = "summary"
                         /\ UNCHANGED error
       ELSE /\ filtered_df' = df
            /\ pc' = "summary"
            /\ UNCHANGED <<search_field, search_query, error>>
    /\ UNCHANGED <<session, now, df, stats, flagged_books, today, overdue_books,
                   underrep_genres, excel_data>>

\* Line 152.
Summary ==
    /\ pc = "summary"
    /\ LET res == get_book_summary(filtered_df) IN
       IF res.exc # "None"
       THEN Fail(res.exc) /\ UNCHANGED stats
       ELSE stats' = res.val /\ pc' = "flagged" /\ UNCHANGED error
    /\ UNCHANGED <<session, now, df, search_field, search_query, filtered_df,
                   flagged_books, today, overdue_books, underrep_genres, excel_data>>

\* Line 168.
Flagged ==
    /\ pc = "flagged"
    /\ LET res == get_flagged_books(filtered_df) IN
       IF res.exc # "None"
       THEN Fail(res.exc) /\ UNCHANGED flagged_books
       ELSE flagged_books' = res.val /\ pc' = "overdue" /\ UNCHANGED error
    /\ UNCHANGED <<session, now, df, search_field, search_query, filtered_df,
                   stats, today, overdue_books, underrep_genres, excel_data>>

\* Line 174; line 70 reads the clock.
Overdue ==
    /\ pc = "overdue"
    /\ today' = now
    /\ LET res == get_overdue_books(filtered_df, now) IN
       IF res.exc # "None"
       THEN Fail(res.exc) /\ UNCHANGED overdue_books
       ELSE overdue_books' = res.val /\ pc' = "genres" /\ UNCHANGED error
    /\ UNCHANGED <<session, now, df, search_field, search_query, filtered_df,
                   stats, flagged_books, underrep_genres, excel_data>>

\* Line 180.
Genres ==
    /\ pc = "genres"
    /\ LET res == get_underrepresented_genres(filtered_df, threshold) IN
       IF res.exc # "None"
       THEN Fail(res.exc) /\ UNCHANGED underrep_genres
       ELSE underrep_genres' = res.val /\ pc' = "export" /\ UNCHANGED error
    /\ UNCHANGED <<session, now, df, search_field, search_query, filtered_df,
                   stats, flagged_books, today, overdue_books, excel_data>>

\* Lines 199-206: the writer may fail; the error is shown and no download offered.
Export ==
    /\ pc = "export"
    /\ \E writer_ok \in BOOLEAN : excel_data' = convert_df_to_excel(filtered_df, writer_ok)
    /\ pc' = "done"
    /\ UNCHANGED <<session, now, df, search_field, search_query, filtered_df,
                   stats, flagged_books, today, overdue_books, underrep_genres, error>>

\* The clock advances while the page waits for the next interaction.
Tick ==
    /\ pc = "done"
    /\ now < MaxNow
    /\ now' = now + 1
    /\ UNCHANGED <<session, pc, df, search_field, search_query, filtered_df,
                   stats, flagged_books, today, overdue_books, underrep_genres,
                   excel_data, error>>

\* An interaction reruns the script from the top: its locals start afresh, the
\* upload widget still holds the file.
Rerun ==
    /\ pc = "done"
    /\ pc' = "load"
    /\ df' = EmptyFrame
    /\ search_field' = "None"
    /\ search_query' = <<>>
    /\ filtered_df' = EmptyFrame
    /\ stats' = ZeroSummary
    /\ flagged_books' = EmptyFrame
    /\ today' = 0
    /\ overdue_books' = EmptyFrame
    /\ underrep_genres' = EmptySeries
    /\ excel_data' = NoExcel
    /\ error' = "None"
    /\ UNCHANGED <<session, now>>

Next ==
    \/ Load
    \/ Search
    \/ Summary
    \/ Flagged
    \/ Overdue
    \/ Genres
    \/ Export
    \/ Tick
    \/ Rerun

\* ------------------------------------------------------- the files loaded
Row(t, a, s, c, g, i, r) ==
    [Title |-> t, Authors |-> a, Status |-> s, Condition |-> c, Category |-> g,
     Issue_Date |-> i, Return_Date |-> r]

\* Rows that differ in every recognised column, one of them all blank.
MixedPool ==
    {Row(<<"A", "n">>, <<"a", ".">>, "Issued", "Damaged", "Fiction", "2024-01-15", ""),
     Row(<<>>, <<>>, "", "", "", "", ""),
     Row(<<"b", ".">>, <<"a", ".">>, "Returned", "Good", "Dystopian", "2024-01-15",
         "2024-01-16 12:00")}

\* Rows over the text columns.
SearchPool ==
    {Row(t, a, "Available", "Good", "Fiction", "", "") :
        t \in {<<>>, <<"A", "n">>, <<"b", ".">>}, a \in {<<>>, <<"a", ".">>}}

\* Rows over Status and Condition.
SummaryPool ==
    {Row(<<"A", "n">>, <<>>, s, c, "Fiction", "", "") :
        s \in {"", "Available", "Issued", "Returned", "issued"},
        c \in {"", "Good", "Damaged", "Lost", "To Be Replaced", "lost"}}

\* Rows over Status and the two dates.
OverduePool ==
    {Row(<<"A", "n">>, <<>>, s, "Good", "Fiction", i, r) :
        s \in {"Issued", "Returned"},
        i \in {"", "2024-01-15", "2024-01-16 12:00"},
        r \in {"", "2024-01-16 12:00"}}
    \cup {Row(<<"A", "n">>, <<>>, "", "Good", "Fiction", "2024-01-15", ""),
          Row(<<"A", "n">>, <<>>, "Issued", "Good", "Fiction", "soon", ""),
          Row(<<"A", "n">>, <<>>, "Issued", "Good", "Fiction", "2024-03-01", "")}

\* Rows over Category.
GenrePool ==
    {Row(<<"A", "n">>, <<>>, "Available", "Good", g, "", "") :
        g \in {"", "Fiction", "Dystopian"}}

\* The first clock readings: 30 days after 2024-01-15, and the last reading but one.
OverdueStart == OverdueDays * UnitsPerDay
LateStart == MaxNow - 1

Init == InitWith(MixedPool, SUBSET Cols, MaxRows, {DefaultThreshold}, {LateStart})

InitSearch == InitWith(SearchPool, SUBSET TextCols, MaxRows, {DefaultThreshold}, {LateStart})

InitSummary ==
    InitWith(SummaryPool, SUBSET {"Status", "Condition"}, MaxRows, {DefaultThreshold},
             {LateStart})

InitOverdue ==
    InitWith(OverduePool, SUBSET {"Status", "Issue_Date", "Return_Date"}, MaxRows,
             {DefaultThreshold}, {OverdueStart})

InitGenres ==
    InitWith(GenrePool, SUBSET {"Category"}, MaxGenreRows, (-1)..(MaxGenreRows + 1),
             {LateStart})

Spec == Init /\ [][Next]_vars
SpecSearch == InitSearch /\ [][Next]_vars
SpecSummary == InitSummary /\ [][Next]_vars
SpecOverdue == InitOverdue /\ [][Next]_vars
SpecGenres == InitGenres /\ [][Next]_vars

\* ------------------------------------------------------------ properties
StageNo ==
    [load |-> 0, search |-> 1, summary |-> 2, flagged |-> 3, overdue |-> 4,
     genres |-> 5, export |-> 6, done |-> 7]

\* The step numbered k has run in this run of the script and did not raise.
Ran(k) == StageNo[pc] > k /\ error = "None"

\* The search step has run with a typed query, whatever came of it.
Searched == StageNo[pc] > 1 /\ search_field # "None" /\ search_query # <<>>

\* q occurs in s, character for character.
IsSubstring(q, s) ==
    \E k \in 0..(Len(s) - Len(q)) : \A j \in 1..Len(q) : q[j] = s[k + j]

LiteralMatch(r) ==
    /\ r[search_field] # NA
    /\ IsSubstring(search_query, str_lower(r[search_field][1]))

\* C1: after a search with a non-empty query the step has not failed and
\* filtered_df holds exactly the rows of df, in order, whose search field,
\* lowercased, contains the lowercased query as a literal substring.
C1_SearchIsLiteralSubstring ==
    Searched =>
        /\ error = "None"
        /\ filtered_df = [columns |-> df.columns, rows |-> SelectSeq(df.rows, LiteralMatch)]

\* C2: after a search with a non-empty query no row of filtered_df has a null
\* value in the search field.
C2_NullFieldNeverMatches ==
    (Searched /\ error = "None") =>
        \A i \in 1..Len(filtered_df.rows) : filtered_df.rows[i][search_field] # NA

\* Whole days of a difference, truncated towards zero.
WholeDays(delta) ==
    IF delta >= 0 THEN delta \div UnitsPerDay ELSE -((-delta) \div UnitsPerDay)

ExpectedOverdue(r) ==
    /\ r["Status"] = <<"Issued">>
    /\ r["Issue_Date"] # NA
    /\ WholeDays(today - r["Issue_Date"][1]) > 30
    /\ ("Return_Date" \in DOMAIN r => r["Return_Date"] = NA)

\* C3: on a collection with Status and Issue_Date columns, overdue_books holds
\* exactly the rows that are Issued, have an Issue_Date more than 30 whole days
\* before the clock reading and, when there is a Return_Date column, no
\* Return_Date.
C3_OverdueExact ==
    (Ran(4) /\ {"Status", "Issue_Date"} \subseteq filtered_df.columns) =>
        overdue_books.rows = SelectSeq(filtered_df.rows, ExpectedOverdue)

\* C3: one row issued 31 whole days ago is reported, beside one issued exactly
\* 30 whole days ago that is not.
C3_Witness ==
    /\ Ran(4)
    /\ "Return_Date" \in filtered_df.columns
    /\ Len(filtered_df.rows) = 2
    /\ Len(overdue_books.rows) = 1
    /\ \E i \in 1..2 :
          /\ filtered_df.rows[i]["Status"] = <<"Issued">>
          /\ filtered_df.rows[i]["Return_Date"] = NA
          /\ filtered_df.rows[i]["Issue_Date"] # NA
          /\ (today - filtered_df.rows[i]["Issue_Date"][1]) \div UnitsPerDay = 30

\* The rows of filtered_df whose column c holds lit; none when c is absent.
NumberWith(c, lit) ==
    IF c \in filtered_df.columns
    THEN LET Is(r) == r[c] = <<lit>> IN Len(SelectSeq(filtered_df.rows, Is))
    ELSE 0

\* C4: stats counts all rows, the rows of each Status literal and of each
\* Condition literal; every count is at most Total Books, and all are 0 on an
\* empty collection.
C4_SummaryCounts ==
    Ran(2) =>
        /\ stats.Total = Len(filtered_df.rows)
        /\ stats.Available = NumberWith("Status", "Available")
        /\ stats.Issued = NumberWith("Status", "Issued")
        /\ stats.Returned = NumberWith("Status", "Returned")
        /\ stats.Damaged = NumberWith("Condition", "Damaged")
        /\ stats.Lost = NumberWith("Condition", "Lost")
        /\ stats.ToBeReplaced = NumberWith("Condition", "To Be Replaced")
        /\ \A f \in DOMAIN stats : stats[f] <= stats.Total
        /\ (filtered_df.rows = <<>> => stats = ZeroSummary)

\* C4: two rows, one counted as Issued, the other with a Status that differs
\* from a literal only in case and is counted nowhere.
C4_Witness ==
    /\ Ran(2)
    /\ stats.Total = 2
    /\ stats.Issued = 1
    /\ stats.Available + stats.Returned = 0
    /\ stats.Lost = 1
    /\ \E i \in 1..2 : filtered_df.rows[i]["Status"] = <<"issued">>

\* The rows of filtered_df in category g.
InCategory(g) ==
    LET Is(r) == r["Category"] = <<g>> IN Len(SelectSeq(filtered_df.rows, Is))

\* The non-null Category values of filtered_df.
Categories ==
    {filtered_df.rows[i]["Category"][1] :
        i \in {j \in 1..Len(filtered_df.rows) : filtered_df.rows[j]["Category"] # NA}}

\* C5: on a collection with a Category column, underrep_genres maps exactly the
\* categories that occur, and occur in fewer than threshold rows, each to the
\* number of its rows.
C5_UnderrepresentedExact ==
    (Ran(5) /\ "Category" \in filtered_df.columns) =>
        /\ DOMAIN underrep_genres =
              {g \in Categories : InCategory(g) > 0 /\ InCategory(g) < threshold}
        /\ \A g \in DOMAIN underrep_genres : underrep_genres[g] = InCategory(g)

\* C5: with the default threshold, a category of exactly 5 rows is left out.
C5_Witness ==
    /\ Ran(5)
    /\ "Category" \in filtered_df.columns
    /\ threshold = 5
    /\ InCategory("Fiction") = 5
    /\ "Fiction" \notin DOMAIN underrep_genres

IsFlagged(r) == r["Condition"] \in {<<"Damaged">>, <<"Lost">>, <<"To Be Replaced">>}

\* C6: flagged_books holds exactly the rows of the collection whose Condition
\* is Damaged, Lost or To Be Replaced, in their order; it is empty when the
\* collection is empty or has no Condition column.
C6_FlaggedExact ==
    Ran(3) =>
        flagged_books.rows =
            IF "Condition" \in filtered_df.columns
            THEN SelectSeq(filtered_df.rows, IsFlagged)
            ELSE <<>>

\* C6: a flagged row is reported and the row beside it is not.
C6_Witness ==
    /\ Ran(3)
    /\ Len(filtered_df.rows) = 2
    /\ Len(flagged_books.rows) = 1
    /\ flagged_books.rows[1] = filtered_df.rows[2]
    /\ flagged_books.rows[1]["Condition"] = <<"To Be Replaced">>

\* C7: with an empty query, or with neither Title nor Authors in the dataset,
\* the search step does not fail and the collection handed to the summary, the
\* detectors and the exporter is the loaded one.
C7_NoQueryNoFilter ==
    (StageNo[pc] > 1 /\ (search_query = <<>> \/ search_columns(df) = {})) =>
        /\ error = "None"
        /\ filtered_df = df
        /\ (excel_data # NoExcel => excel_data.data = df.rows)

\* C7: the empty query was typed over a dataset with a search column and rows.
C7_Witness ==
    /\ pc = "done"
    /\ search_field = "Title"
    /\ search_query = <<>>
    /\ Len(filtered_df.rows) = 2
    /\ excel_data # NoExcel

\* C8: whatever recognised columns the dataset has, no step of the run reaches
\* an error outcome, and a computation whose column is absent yields its
\* default.
C8_NoErrorOnAnyColumns ==
    /\ error = "None"
    /\ (Ran(2) /\ "Status" \notin df.columns) =>
          stats.Available + stats.Issued + stats.Returned = 0
    /\ (Ran(2) /\ "Condition" \notin df.columns) =>
          stats.Damaged + stats.Lost + stats.ToBeReplaced = 0
    /\ (Ran(3) /\ "Condition" \notin df.columns) => flagged_books = EmptyFrame
    /\ (Ran(4) /\ ~({"Status", "Issue_Date"} \subseteq df.columns)) =>
          overdue_books = EmptyFrame
    /\ (Ran(5) /\ "Category" \notin df.columns) => underrep_genres = EmptySeries
    /\ (Ran(1) /\ search_columns(df) = {}) => filtered_df = df

\* What of C8 holds: an absent column never raises KeyError.
NoKeyError == error # "KeyError"

RECURSIVE IsSubSeq(_, _)
IsSubSeq(a, b) ==
    IF a = <<>> THEN TRUE
    ELSE IF b = <<>> THEN FALSE
    ELSE IF Head(a) = Head(b) THEN IsSubSeq(Tail(a), Tail(b))
    ELSE IsSubSeq(a, Tail(b))

Outstanding(r) ==
    /\ r["Status"] = <<"Issued">>
    /\ r["Issue_Date"] # NA
    /\ ("Return_Date" \in DOMAIN r => r["Return_Date"] = NA)

\* C10: on the same collection the rows reported overdue at the clock reading
\* are reported at every later reading, and an Issued row with an Issue_Date
\* and no recorded return is reported once the clock is 31 whole days past its
\* Issue_Date.
C10_OverdueMonotone ==
    (Ran(4) /\ {"Status", "Issue_Date"} \subseteq filtered_df.columns) =>
        /\ \A t \in today..MaxNow :
              IsSubSeq(overdue_books.rows, get_overdue_books(filtered_df, t).val.rows)
        /\ \A i \in 1..Len(filtered_df.rows) :
              LET r == filtered_df.rows[i] IN
              (Outstanding(r) /\ today - r["Issue_Date"][1] >= 31 * UnitsPerDay) =>
                  \E j \in 1..Len(overdue_books.rows) : overdue_books.rows[j] = r

\* C10: the clock has advanced since the first run, a row that was not overdue
\* then is reported now, and the clock moved on after the report.
C10_Witness ==
    /\ pc = "done"
    /\ error = "None"
    /\ today > OverdueStart
    /\ now > today
    /\ Len(overdue_books.rows) = 2

====
